---- MODULE Spec2Model ----
(***************************************************************************)
(* The wallet web server of wallet/src/main.rs: init_server loads the      *)
(* route table (api.toml) into WebState and starts listening; every        *)
(* request that reaches entry_page / handle_web_socket is matched by       *)
(* parse_route against the alternatives of the route group its first path  *)
(* segment selects.                                                        *)
(*                                                                         *)
(* A path or a pattern is the sequence of its slash-delimited segments     *)
(* (what Url::path_segments and str::split('/') yield); a segment is a     *)
(* string, possibly empty.  arg_doc, a String in the code, is the sequence *)
(* of the pieces pushed onto it.                                           *)
(***************************************************************************)
EXTENDS Integers, Sequences, FiniteSets, TLC

VARIABLES
    phase,                  \* "start" before init_server, then "listening"
    api,                    \* WebState.api: the loaded route specification
    routes,                 \* the paths registered with the web server
    pc,                     \* position of the request being handled
    req,                    \* path segments of the request being handled
    alt,                    \* index of the next alternative of the for loop
    arg_doc,                \* parse_route's locals
    matching_route_count,
    matching_route,
    bindings,
    result,                 \* what parse_route returned (or that it panicked)
    evaluated,              \* history: alternatives whose walk was started
    served,                 \* number of requests answered so far
    memo,                   \* history: the first request answered and its result
    loaded,                 \* history: the route specification as it was loaded
    api2,                   \* SpecPerm only: the same table, PATH permuted
    result2,                \* SpecPerm only: parse_route's result under api2
    tasks,                  \* SpecServe only: the request each task is handling
    wallet,                 \* SpecServe only: holder of WebState.wallet's lock
    walk,                   \* SpecWalk only: the locals of the for loop's body
    pat_index               \* SpecWalk only: index of the next pattern segment

vars == <<phase, api, routes, pc, req, alt, arg_doc, matching_route_count,
          matching_route, bindings, result, evaluated, served, memo, loaded,
          api2, result2, tasks, wallet, walk, pat_index>>

----------------------------------------------------------------------------
(* Bounds of the model *)

MaxAlts == 3            \* alternatives in a group's PATH array
MaxReqLen == 3          \* segments of a request path
MaxRequests == 3        \* requests answered in one run
MaxTasks == 2           \* requests handled at the same time

----------------------------------------------------------------------------
(* routes::UrlSegmentType and routes::UrlSegmentValue (routes.rs is not    *)
(* part of the sources at hand; modelled from section 4.1 of the spec)     *)

SegmentTypes == {"Integer", "Literal"}

\* UrlSegmentType::from_str: the declared type of that name, or an error.
UrlSegmentType_from_str(segment_type) ==
    IF segment_type \in SegmentTypes
    THEN [ok |-> TRUE, ptype |-> segment_type, err |-> ""]
    ELSE [ok |-> FALSE, ptype |-> "", err |-> "Matching variant not found"]

UnsignedTexts == {"0", "7", "42"}

\* UrlSegmentValue::parse: Some(value) or None.  An opaque string accepts
\* every segment, the empty one included; an unsigned integer its digits.
UrlSegmentValue_parse(ptype, req_segment) ==
    IF ptype = "Literal" \/ (ptype = "Integer" /\ req_segment \in UnsignedTexts)
    THEN [some |-> TRUE, value |-> [tag |-> ptype, raw |-> req_segment]]
    ELSE [some |-> FALSE, value |-> [tag |-> "", raw |-> ""]]

----------------------------------------------------------------------------
(* The route specifications the server may be started with *)

GroupKey == "g"

\* The type entry of each placeholder, as api.toml's group table gives it.
\* ":u" names a type UrlSegmentType does not declare.
TypeEntry ==
    [p \in {":a", ":s", ":u", ":id", ":recipient", ":amount"} |->
        CASE p = ":a" -> "Integer"
          [] p = ":s" -> "Literal"
          [] p = ":u" -> "Bogus"
          [] p = ":id" -> "Integer"
          [] p = ":recipient" -> "Literal"
          [] p = ":amount" -> "Integer"]

\* A placeholder that api.toml gives no type entry.
UntypedPlaceholder == ":n"

Patterns ==
    { <<"g", ":a">>, <<"g", ":s">>, <<"g", "x", ":a">>, <<"g", ":u">> }

\* An element of a PATH array is a toml value: a string (a pattern), or, as
\* nothing forbids it, something else (as_str() is then None).
TomlString(pattern) == [is_str |-> TRUE, s |-> pattern]

TomlInteger == [is_str |-> FALSE, s |-> <<>>]

PathElements == { TomlString(p) : p \in Patterns } \cup {TomlInteger}

Range(s) == { s[k] : k \in DOMAIN s }

Injective(s) == \A j, k \in DOMAIN s : s[j] = s[k] => j = k

PathArrays ==
    { s \in UNION { [1..n -> PathElements] : n \in 1..MaxAlts } : Injective(s) }

Placeholders(path) ==
    { seg \in DOMAIN TypeEntry : \E k \in DOMAIN path : seg \in Range(path[k].s) }

\* One [route.<key>] table: PATH, DOC and one entry per placeholder.  PATH
\* holds the patterns; PATH_is_array tells an array from a single string
\* (PATH is then that one string).  WEB_SOCKET is "true", "false" or "absent".
Group(path) ==
    [PATH |-> path, PATH_is_array |-> TRUE, WEB_SOCKET |-> "absent",
     DOC |-> "doc of g",
     params |-> [p \in Placeholders(path) |-> TypeEntry[p]]]

Tables == { [route |-> [k \in {GroupKey} |-> Group(path)]] : path \in PathArrays }

ReqSegments == {"x", "7"}

RECURSIVE SeqsUpTo(_, _)
SeqsUpTo(S, n) ==
    IF n = 0 THEN { <<>> }
    ELSE LET shorter == SeqsUpTo(S, n - 1)
         IN  shorter \cup { Append(s, x) : s \in shorter, x \in S }

\* The route add_form_demonstration registers whatever api.toml declares.
HardCodedRoute == <<"transfer", ":id", ":recipient", ":amount">>

\* Request paths: the group key, then segments; a trailing slash gives a
\* last segment that is empty.
Requests ==
    { <<GroupKey>> \o rest : rest \in SeqsUpTo(ReqSegments, MaxReqLen - 1) }
    \cup { <<GroupKey>> \o rest \o <<"">> : rest \in SeqsUpTo(ReqSegments, MaxReqLen - 2) }
    \cup { <<"transfer", "7", "x", "7">> }

----------------------------------------------------------------------------
(* parse_route *)

\* One piece pushed onto arg_doc (or the text of an early error): what the
\* format string is, the route pattern it names, and its other arguments.
Piece(kind, route, a, b, c) ==
    [kind |-> kind, route |-> route, a |-> a, b |-> b, c |-> c]

NoRoute == <<>>

NoBindings == <<>>

\* req_segments.next().unwrap_or(""), with pos the iterator's position.
NextSegment(r, pos) == IF pos <= Len(r) THEN r[pos] ELSE ""

Advance(r, pos) == IF pos <= Len(r) THEN pos + 1 ELSE pos

\* api.get(pat_segment): the group table has an entry under that key.
HasEntry(group, pat_segment) ==
    \/ pat_segment \in DOMAIN group.params \cup {"PATH", "DOC"}
    \/ pat_segment = "WEB_SOCKET" /\ group.WEB_SOCKET # "absent"

\* segment_type_value.as_str(): the PATH array and the WEB_SOCKET boolean
\* are not strings.
EntryIsStr(group, pat_segment) == pat_segment \notin {"PATH", "WEB_SOCKET"}

EntryStr(group, pat_segment) ==
    IF pat_segment = "DOC" THEN group.DOC ELSE group.params[pat_segment]

\* A slip in the bookkeeping: one map of bindings shared by all the
\* alternatives instead of one map per route pattern.
InsertBindingShared(b, route_pattern, parameter, rb) ==
    LET shared == IF DOMAIN b = {} THEN NoBindings
                  ELSE b[CHOOSE p \in DOMAIN b : TRUE]
        inner2 == [q \in DOMAIN shared \cup {parameter} |->
                      IF q = parameter THEN rb ELSE shared[q]]
    IN  [p \in DOMAIN b \cup {route_pattern} |-> inner2]

\* bindings.entry(route_pattern).or_default().insert(parameter, rb)
InsertBinding(b, route_pattern, parameter, rb) ==
    LET inner == IF route_pattern \in DOMAIN b THEN b[route_pattern] ELSE NoBindings
        inner2 == [q \in DOMAIN inner \cup {parameter} |->
                      IF q = parameter THEN rb ELSE inner[q]]
    IN  [p \in DOMAIN b \cup {route_pattern} |->
            IF p = route_pattern THEN inner2 ELSE b[p]]

\* The branch of the inner loop for a segment with a type entry.
WalkParameter(group, route_pattern, r, pat_segment, w) ==
    LET segment_type == EntryStr(group, pat_segment)
        req_segment == NextSegment(r, w.pos)
        doc1 == Append(w.arg_doc,
                       Piece("Argument", route_pattern, pat_segment, segment_type,
                             req_segment))
        t == UrlSegmentType_from_str(segment_type)
        v == UrlSegmentValue_parse(t.ptype, req_segment)
        rb == [parameter |-> pat_segment, ptype |-> t.ptype, value |-> v.value]
    IN  IF ~EntryIsStr(group, pat_segment)
        THEN [w EXCEPT !.exit = "panic"]
        ELSE IF ~t.ok
        THEN [w EXCEPT !.pos = Advance(r, w.pos), !.arg_doc = doc1,
                       !.exit = "err", !.err = t.err]
        ELSE IF v.some
        THEN [w EXCEPT !.pos = Advance(r, w.pos),
                       !.arg_doc = Append(doc1, Piece("ParseSucceeded", route_pattern,
                                                     pat_segment, "", "")),
                       !.bindings = InsertBinding(w.bindings, route_pattern,
                                                  pat_segment, rb)]
        ELSE [w EXCEPT !.pos = Advance(r, w.pos),
                       !.arg_doc = Append(doc1, Piece("ParseFailed", route_pattern,
                                                     pat_segment, "", "")),
                       !.argument_parse_failed = TRUE]

\* The branch for a segment without one: it is taken as a literal.
WalkLiteral(route_pattern, r, pat_segment, w) ==
    LET req_segment == NextSegment(r, w.pos)
    IN  IF req_segment # pat_segment
        THEN [w EXCEPT !.pos = Advance(r, w.pos),
                       !.found_literal_mismatch = TRUE,
                       !.arg_doc = Append(w.arg_doc,
                                          Piece("LiteralMismatch", route_pattern,
                                                req_segment, pat_segment, ""))]
        ELSE [w EXCEPT !.pos = Advance(r, w.pos)]

WalkSegment(group, route_pattern, r, pat_segment, w) ==
    IF HasEntry(group, pat_segment)
    THEN WalkParameter(group, route_pattern, r, pat_segment, w)
    ELSE WalkLiteral(route_pattern, r, pat_segment, w)

\* for pat_segment in route_pattern.split('/') { ... }, from segment k on;
\* the ? of the type lookup and a panic leave the loop.
RECURSIVE Walk(_, _, _, _, _)
Walk(group, route_pattern, r, k, w) ==
    IF k > Len(route_pattern) \/ w.exit # "none" THEN w
    ELSE Walk(group, route_pattern, r, k + 1,
              WalkSegment(group, route_pattern, r, route_pattern[k], w))

\* A slip in the length test: the request's last segment is not looked at.
LengthMatchesOffByOne(r, pos) == pos >= Len(r)

\* let mut length_matches = false; if req_segments.next().is_none() { ... }
LengthMatches(r, pos) == pos > Len(r)

\* if !argument_parse_failed && length_matches && !found_literal_mismatch
IsFullMatch(argument_parse_failed, length_matches, found_literal_mismatch) ==
    ~argument_parse_failed /\ length_matches /\ ~found_literal_mismatch

\* The head of the for loop's body: the flags are down, the pattern is
\* named in arg_doc, req_segments starts anew.
NewWalk(route_pattern, doc, b) ==
    [pos |-> 1, found_literal_mismatch |-> FALSE, argument_parse_failed |-> FALSE,
     arg_doc |-> Append(doc, Piece("Route", route_pattern, "", "", "")),
     bindings |-> b, exit |-> "none", err |-> ""]

\* One iteration of for route_pattern in route_patterns.iter(), on the
\* locals L of parse_route.
EvalAlternative(group, r, element, L) ==
    LET route_pattern == element.s
        w0 == NewWalk(route_pattern, L.arg_doc, L.bindings)
        w == Walk(group, route_pattern, r, 1, w0)
        doc1 == IF ~w.found_literal_mismatch
                THEN Append(w.arg_doc, Piece("LiteralsMatch", route_pattern, "", "", ""))
                ELSE w.arg_doc
        length_matches == LengthMatches(r, w.pos)
        doc2 == IF length_matches
                THEN Append(doc1, Piece("LengthMatch", route_pattern, "", "", ""))
                ELSE doc1
        doc3 == Append(doc2,
                       IF w.argument_parse_failed
                       THEN Piece("ArgumentParsingFailed", route_pattern, "", "", "")
                       ELSE Piece("NoArgumentParsingErrors", route_pattern, "", "", ""))
        full == IsFullMatch(w.argument_parse_failed, length_matches,
                            w.found_literal_mismatch)
    IN  IF ~element.is_str
        THEN [L EXCEPT !.exit = "panic"]
        ELSE IF w.exit # "none"
        THEN [L EXCEPT !.arg_doc = w.arg_doc, !.bindings = w.bindings,
                       !.exit = w.exit, !.err = w.err]
        ELSE IF full
        THEN [L EXCEPT !.arg_doc = Append(doc3, Piece("RouteMatches", route_pattern,
                                                     "", "", "")),
                       !.bindings = w.bindings,
                       !.matching_route_count = L.matching_route_count + 1,
                       !.matching_route = route_pattern]
        ELSE [L EXCEPT !.arg_doc = Append(doc3, Piece("RouteDoesNotMatch", route_pattern,
                                                     "", "", "")),
                       !.bindings = w.bindings]

\* What parse_route hands back: Ok((pattern, bindings)), Err(payload), or
\* no value at all when it panicked.
Ok(pattern, b) == [tag |-> "Ok", pattern |-> pattern, bindings |-> b, payload |-> <<>>]

Err(payload) ==
    [tag |-> "Err", pattern |-> NoRoute, bindings |-> NoBindings, payload |-> payload]

Panicked ==
    [tag |-> "Panic", pattern |-> NoRoute, bindings |-> NoBindings, payload |-> <<>>]

NoResult ==
    [tag |-> "None", pattern |-> NoRoute, bindings |-> NoBindings, payload |-> <<>>]

\* A slip in the locals: the count of matches lives on between requests.
InitLocalsKeepingCount(group) ==
    [arg_doc |-> <<Piece("Doc", NoRoute, group.DOC, "", "")>>,
     matching_route_count |-> served,
     matching_route |-> NoRoute,
     bindings |-> NoBindings,
     exit |-> "none", err |-> ""]

\* let mut arg_doc = api["DOC"]...; let mut matching_route_count = 0u64; ...
InitLocals(group) ==
    [arg_doc |-> <<Piece("Doc", NoRoute, group.DOC, "", "")>>,
     matching_route_count |-> 0,
     matching_route |-> NoRoute,
     bindings |-> NoBindings,
     exit |-> "none", err |-> ""]

\* match matching_route_count { 0 => ..., 1 => ..., _ => ... }, and the two
\* ways out of the loop.
Conclude(L) ==
    IF L.exit = "panic" THEN Panicked
    ELSE IF L.exit = "err" THEN Err(<<Piece("Error", NoRoute, L.err, "", "")>>)
    ELSE IF L.matching_route_count = 0
    THEN Err(Append(L.arg_doc, Piece("NeedDocumentation", NoRoute, "", "", "")))
    ELSE IF L.matching_route_count = 1
    THEN Ok(L.matching_route,
            IF L.matching_route \in DOMAIN L.bindings
            THEN L.bindings[L.matching_route] ELSE NoBindings)
    ELSE Err(Append(L.arg_doc, Piece("Ambiguity", NoRoute, "", "", "")))

\* &req.state().api["route"][first_segment]: toml's Index panics on a key
\* the table does not have.
GroupExists(table, r) == r # <<>> /\ r[1] \in DOMAIN table.route

SelectedGroup(table, r) == table.route[r[1]]

\* api["PATH"].as_array().expect(...): parse_route gets to its for loop only
\* if the group exists and its PATH is an array.
ReachesLoop(table, r) ==
    GroupExists(table, r) /\ SelectedGroup(table, r).PATH_is_array

RECURSIVE EvalFrom(_, _, _, _)
EvalFrom(group, r, k, L) ==
    IF k > Len(group.PATH) \/ L.exit # "none" THEN L
    ELSE EvalFrom(group, r, k + 1, EvalAlternative(group, r, group.PATH[k], L))

\* parse_route as a function of the route table and the request path.
parse_route(table, r) ==
    IF r = <<>> THEN Err(<<Piece("Error", NoRoute, "Empty path", "", "")>>)
    ELSE IF ~ReachesLoop(table, r) THEN Panicked
    ELSE Conclude(EvalFrom(SelectedGroup(table, r), r, 1,
                           InitLocals(SelectedGroup(table, r))))

----------------------------------------------------------------------------
(* The server *)

\* The paths init_server registers: the demonstration route and every PATH
\* string of every route group.
RegisteredRoutes(table) ==
    {HardCodedRoute}
    \cup UNION { { e.s : e \in { x \in Range(table.route[k].PATH) : x.is_str } } :
                 k \in DOMAIN table.route }

\* The web server's router hands a request to the handler of a registered
\* path: literal segments equal, a ":name" segment any non-empty segment.
IsPlaceholderText(seg) ==
    seg \in DOMAIN TypeEntry \cup Range(Tail(HardCodedRoute)) \cup {UntypedPlaceholder}

Routed(rs, r) ==
    \E route \in rs :
        /\ Len(route) = Len(r)
        /\ \A k \in DOMAIN route :
              IF IsPlaceholderText(route[k]) THEN r[k] # "" ELSE r[k] = route[k]

\* StatusCode::BadRequest
BadRequest == 400

NoMemo == [set |-> FALSE, req |-> <<>>, result |-> NoResult]

\* No request task is running, nobody holds the wallet, no walk is going on.
NoTasks == <<>>

NoHolder == 0

NoWalk ==
    [pos |-> 0, found_literal_mismatch |-> FALSE, argument_parse_failed |-> FALSE,
     arg_doc |-> <<>>, bindings |-> NoBindings, exit |-> "none", err |-> ""]

Locals ==
    [arg_doc |-> arg_doc, matching_route_count |-> matching_route_count,
     matching_route |-> matching_route, bindings |-> bindings,
     exit |-> "none", err |-> ""]

Init ==
    /\ phase = "start"
    /\ api \in Tables
    /\ routes = {}
    /\ pc = "idle"
    /\ req = <<>>
    /\ alt = 0
    /\ arg_doc = <<>>
    /\ matching_route_count = 0
    /\ matching_route = NoRoute
    /\ bindings = NoBindings
    /\ result = NoResult
    /\ evaluated = <<>>
    /\ served = 0
    /\ memo = NoMemo
    /\ loaded = api
    /\ api2 = api
    /\ result2 = NoResult
    /\ tasks = NoTasks
    /\ wallet = NoHolder
    /\ walk = NoWalk
    /\ pat_index = 0

\* init_server: the table is taken as loaded, the routes are registered and
\* the server listens.
init_server ==
    /\ phase = "start"
    /\ phase' = "listening"
    /\ routes' = RegisteredRoutes(api)
    /\ UNCHANGED <<api, pc, req, alt, arg_doc, matching_route_count, matching_route,
                   bindings, result, evaluated, served, memo, loaded, api2, result2,
                   tasks, wallet, walk, pat_index>>

\* A request arrives and its handler calls parse_route, which runs up to its
\* for loop: the group is looked up and the locals are set.  A panic ends
\* the task of this request; the server goes on with the next one.
Begin(r) ==
    /\ phase = "listening"
    /\ pc = "idle"
    /\ served < MaxRequests
    /\ req' = r
    /\ evaluated' = <<>>
    /\ IF r = <<>> \/ ~ReachesLoop(api, r)
       THEN /\ result' = parse_route(api, r)
            /\ pc' = "done"
            /\ UNCHANGED <<alt, arg_doc, matching_route_count, matching_route, bindings>>
       ELSE LET L == InitLocals(SelectedGroup(api, r))
            IN  /\ arg_doc' = L.arg_doc
                /\ matching_route_count' = L.matching_route_count
                /\ matching_route' = L.matching_route
                /\ bindings' = L.bindings
                /\ alt' = 1
                /\ pc' = "loop"
                /\ result' = NoResult
    /\ UNCHANGED <<phase, api, routes, served, memo, loaded, api2, result2,
                   tasks, wallet, walk, pat_index>>

\* One iteration of the loop over route_patterns.
EvalNext ==
    /\ pc = "loop"
    /\ alt <= Len(SelectedGroup(api, req).PATH)
    /\ LET group == SelectedGroup(api, req)
           L == EvalAlternative(group, req, group.PATH[alt], Locals)
       IN  /\ arg_doc' = L.arg_doc
           /\ matching_route_count' = L.matching_route_count
           /\ matching_route' = L.matching_route
           /\ bindings' = L.bindings
           /\ evaluated' = Append(evaluated,
                                  [alt |-> alt,
                                   counted |-> L.matching_route_count > matching_route_count,
                                   completed |-> L.exit = "none"])
           /\ IF L.exit = "none"
              THEN /\ alt' = alt + 1
                   /\ UNCHANGED <<pc, result>>
              ELSE /\ result' = Conclude(L)
                   /\ pc' = "done"
                   /\ UNCHANGED alt
    /\ UNCHANGED <<phase, api, routes, req, served, memo, loaded, api2, result2,
                   tasks, wallet, walk, pat_index>>

\* The loop is over: the match on matching_route_count.
Finish ==
    /\ pc = "loop"
    /\ alt > Len(SelectedGroup(api, req).PATH)
    /\ result' = Conclude(Locals)
    /\ pc' = "done"
    /\ UNCHANGED <<phase, api, routes, req, alt, arg_doc, matching_route_count,
                   matching_route, bindings, evaluated, served, memo, loaded, api2, result2,
                   tasks, wallet, walk, pat_index>>

\* The handler has its answer (or its task has unwound); parse_route's
\* locals are gone.
Respond ==
    /\ pc = "done"
    /\ served' = served + 1
    /\ memo' = IF memo.set THEN memo ELSE [set |-> TRUE, req |-> req, result |-> result]
    /\ pc' = "idle"
    /\ req' = <<>>
    /\ alt' = 0
    /\ arg_doc' = <<>>
    /\ matching_route_count' = 0
    /\ matching_route' = NoRoute
    /\ bindings' = NoBindings
    /\ result' = NoResult
    /\ evaluated' = <<>>
    /\ UNCHANGED <<phase, api, routes, loaded, api2, result2,
                   tasks, wallet, walk, pat_index>>

Next ==
    \/ init_server
    \/ \E r \in Requests : Begin(r)
    \/ EvalNext
    \/ Finish
    \/ Respond

Spec == Init /\ [][Next]_vars

----------------------------------------------------------------------------
(* parse_route applied to a route table and to the same table with the     *)
(* alternatives of its group declared in another order                     *)

Reorderings(s) ==
    { [k \in DOMAIN s |-> s[f[k]]] :
        f \in { g \in [DOMAIN s -> DOMAIN s] : Injective(g) } }

Redeclared(table) ==
    { [route |-> [k \in DOMAIN table.route |->
                    [table.route[k] EXCEPT !.PATH = q]]] :
        q \in Reorderings(table.route[GroupKey].PATH) }

InitPerm ==
    /\ phase = "listening"
    /\ api \in Tables
    /\ api2 \in Redeclared(api)
    /\ routes = RegisteredRoutes(api)
    /\ pc = "idle"
    /\ req = <<>>
    /\ alt = 0
    /\ arg_doc = <<>>
    /\ matching_route_count = 0
    /\ matching_route = NoRoute
    /\ bindings = NoBindings
    /\ result = NoResult
    /\ evaluated = <<>>
    /\ served = 0
    /\ memo = NoMemo
    /\ loaded = api
    /\ result2 = NoResult
    /\ tasks = NoTasks
    /\ wallet = NoHolder
    /\ walk = NoWalk
    /\ pat_index = 0

MatchBoth(r) ==
    /\ pc = "idle"
    /\ req' = r
    /\ result' = parse_route(api, r)
    /\ result2' = parse_route(api2, r)
    /\ pc' = "done"
    /\ UNCHANGED <<phase, api, routes, alt, arg_doc, matching_route_count,
                   matching_route, bindings, evaluated, served, memo, loaded, api2,
                   tasks, wallet, walk, pat_index>>

NextPerm == \E r \in Requests : MatchBoth(r)

SpecPerm == InitPerm /\ [][NextPerm]_vars

----------------------------------------------------------------------------
(* The server handling several requests at a time: entry_page and          *)
(* handle_web_socket around parse_route, the operation handlers they       *)
(* dispatch to, and the lock of WebState.wallet                            *)

\* A [route.transfer] group whose one pattern goes on after the segments of
\* the demonstration route.
LongTransfer == HardCodedRoute \o <<":a">>

\* The groups "g" the server of SpecServe is started with: one alternative,
\* two that overlap, an array with an element that is no string, and a PATH
\* that is a single string.
ServedGroups ==
    LET one == TomlString(<<"g", ":a">>)
        other == TomlString(<<"g", ":s">>)
    IN  { Group(<<one>>), Group(<<one, other>>), Group(<<TomlInteger, one>>),
          [Group(<<one>>) EXCEPT !.PATH_is_array = FALSE] }

TransferGroups ==
    { Group(<<TomlString(LongTransfer)>>),
      [Group(<<TomlString(LongTransfer)>>) EXCEPT !.PATH_is_array = FALSE] }

ServedTables ==
    LET g == { [group EXCEPT !.WEB_SOCKET = ws] :
                 group \in ServedGroups, ws \in {"absent", "true"} }
    IN  { [route |-> [k \in {GroupKey} |-> group]] : group \in g }
        \cup { [route |-> [k \in {GroupKey, "transfer"} |->
                             IF k = GroupKey THEN group ELSE transfer]] :
                 group \in g, transfer \in TransferGroups }

\* let web_socket = v.get("WEB_SOCKET").map(...).unwrap_or(false)
web_socket(group) == group.WEB_SOCKET = "true"

\* The handler each path is registered with: handle_web_socket for the
\* demonstration route; for the paths of a group, handle_web_socket or
\* entry_page as its WEB_SOCKET says.
Registrations(table) ==
    { [path |-> HardCodedRoute, handler |-> "handle_web_socket"] }
    \cup UNION { { [path |-> e.s,
                    handler |-> IF web_socket(table.route[k])
                                THEN "handle_web_socket" ELSE "entry_page"] :
                     e \in { x \in Range(table.route[k].PATH) : x.is_str } } :
                   k \in DOMAIN table.route }

\* The handlers the router may hand the request to.
HandlersOf(table, r) ==
    { reg.handler : reg \in { x \in Registrations(table) : Routed({x.path}, r) } }

NoCall == [handler |-> "none", pattern |-> NoRoute, bindings |-> NoBindings]

NoResponse == [by |-> "none", status |-> 0, body |-> <<>>]

IdleTask ==
    [pc |-> "idle", handler |-> "none", req |-> <<>>, result |-> NoResult,
     invoked |-> 0, call |-> NoCall, response |-> NoResponse,
     matched_while_locked |-> FALSE]

InitServe ==
    /\ phase = "start"
    /\ api \in ServedTables
    /\ routes = {}
    /\ pc = "idle"
    /\ req = <<>>
    /\ alt = 0
    /\ arg_doc = <<>>
    /\ matching_route_count = 0
    /\ matching_route = NoRoute
    /\ bindings = NoBindings
    /\ result = NoResult
    /\ evaluated = <<>>
    /\ served = 0
    /\ memo = NoMemo
    /\ loaded = api
    /\ api2 = api
    /\ result2 = NoResult
    /\ tasks = [t \in 1..MaxTasks |-> IdleTask]
    /\ wallet = NoHolder
    /\ walk = NoWalk
    /\ pat_index = 0

UnchangedButTasks ==
    UNCHANGED <<phase, api, routes, pc, req, alt, arg_doc, matching_route_count,
                matching_route, bindings, result, evaluated, served, memo, loaded,
                api2, result2, walk, pat_index>>

\* The router hands a request to the handler its path is registered with.
Receive(t, r) ==
    /\ phase = "listening"
    /\ tasks[t].pc = "idle"
    /\ \E h \in HandlersOf(api, r) :
          tasks' = [tasks EXCEPT ![t] = [IdleTask EXCEPT !.pc = "matching",
                                                         !.handler = h, !.req = r]]
    /\ UNCHANGED wallet
    /\ UnchangedButTasks

\* A slip: parse_route takes the wallet's lock for the time of the match.
MatchHoldingWallet(t) ==
    /\ tasks[t].pc = "matching"
    /\ wallet = NoHolder
    /\ wallet' = t
    /\ tasks' = [tasks EXCEPT ![t].result = parse_route(api, tasks[t].req),
                              ![t].pc = "matched"]
    /\ UnchangedButTasks

\* match parse_route(&req): the handler's call of parse_route.  It reads the
\* request and req.state().api; a panic unwinds the task of this request.
Match(t) ==
    /\ tasks[t].pc = "matching"
    /\ LET res == parse_route(api, tasks[t].req)
       IN  tasks' = [tasks EXCEPT ![t].result = res,
                                 ![t].pc = IF res.tag = "Panic" THEN "unwound"
                                           ELSE "matched",
                                 ![t].matched_while_locked = wallet # NoHolder]
    /\ UNCHANGED wallet
    /\ UnchangedButTasks

\* A slip: the operation is dispatched whatever parse_route returned.
entry_page_dispatching_always(t) ==
    /\ tasks[t].pc = "matched"
    /\ tasks[t].handler = "entry_page"
    /\ tasks' = [tasks EXCEPT ![t].invoked = @ + 1,
                              ![t].call = [handler |-> "dispatch_url",
                                           pattern |-> tasks[t].result.pattern,
                                           bindings |-> tasks[t].result.bindings],
                              ![t].pc = "handler"]
    /\ UNCHANGED wallet
    /\ UnchangedButTasks

\* The two arms of entry_page's match.
entry_page(t) ==
    /\ tasks[t].pc = "matched"
    /\ tasks[t].handler = "entry_page"
    /\ IF tasks[t].result.tag = "Ok"
       THEN tasks' = [tasks EXCEPT ![t].invoked = @ + 1,
                                   ![t].call = [handler |-> "dispatch_url",
                                                pattern |-> tasks[t].result.pattern,
                                                bindings |-> tasks[t].result.bindings],
                                   ![t].pc = "handler"]
       ELSE tasks' = [tasks EXCEPT ![t].response =
                                       [by |-> "entry_page", status |-> 200,
                                        body |-> tasks[t].result.payload],
                                   ![t].pc = "answered"]
    /\ UNCHANGED wallet
    /\ UnchangedButTasks

\* The two arms of handle_web_socket's match.
handle_web_socket(t) ==
    /\ tasks[t].pc = "matched"
    /\ tasks[t].handler = "handle_web_socket"
    /\ IF tasks[t].result.tag = "Ok"
       THEN tasks' = [tasks EXCEPT ![t].invoked = @ + 1,
                                   ![t].call = [handler |-> "dispatch_web_socket",
                                                pattern |-> tasks[t].result.pattern,
                                                bindings |-> tasks[t].result.bindings],
                                   ![t].pc = "handler"]
       ELSE tasks' = [tasks EXCEPT ![t].response =
                                       [by |-> "handle_web_socket",
                                        status |-> BadRequest,
                                        body |-> tasks[t].result.payload],
                                   ![t].pc = "answered"]
    /\ UNCHANGED wallet
    /\ UnchangedButTasks

\* The operation handler (routes.rs is not part of the sources at hand;
\* modelled from section 5 of the spec): it takes the wallet's lock, works
\* on the wallet, gives the lock back and returns its answer.
HandlerLocks(t) ==
    /\ tasks[t].pc = "handler"
    /\ wallet = NoHolder
    /\ wallet' = t
    /\ tasks' = [tasks EXCEPT ![t].pc = "locked"]
    /\ UnchangedButTasks

HandlerReturns(t) ==
    /\ tasks[t].pc = "locked"
    /\ wallet = t
    /\ wallet' = NoHolder
    /\ tasks' = [tasks EXCEPT ![t].pc = "answered",
                              ![t].response = [by |-> tasks[t].call.handler,
                                               status |-> 200, body |-> <<>>]]
    /\ UnchangedButTasks

\* The request is over; its task and all it held are gone.
Close(t) ==
    /\ tasks[t].pc \in {"answered", "unwound"}
    /\ tasks' = [tasks EXCEPT ![t] = IdleTask]
    /\ UNCHANGED wallet
    /\ UnchangedButTasks

NextServe ==
    \/ init_server
    \/ \E t \in 1..MaxTasks, r \in Requests : Receive(t, r)
    \/ \E t \in 1..MaxTasks : Match(t)
    \/ \E t \in 1..MaxTasks : entry_page(t)
    \/ \E t \in 1..MaxTasks : handle_web_socket(t)
    \/ \E t \in 1..MaxTasks : HandlerLocks(t)
    \/ \E t \in 1..MaxTasks : HandlerReturns(t)
    \/ \E t \in 1..MaxTasks : Close(t)

SpecServe == InitServe /\ [][NextServe]_vars

----------------------------------------------------------------------------
(* The walk of one alternative, one pattern segment at a time *)

\* The patterns walked: a literal after a parameter, after a parameter of an
\* undeclared type and after a placeholder without type entry, parameters
\* only, and a literal that reads as a key of the group's table.
WalkPatterns ==
    { <<"g", ":a", "x">>, <<"g", ":u", "x">>, <<"g", UntypedPlaceholder, "x">>,
      <<"g", ":s", ":a">>, <<"g", "DOC">> }

WalkTables ==
    { [route |-> [k \in {GroupKey} |-> Group(<<TomlString(p)>>)]] : p \in WalkPatterns }

WalkSegments == {"x", "X", "7", "DOC", UntypedPlaceholder}

WalkRequests ==
    { <<GroupKey>> \o rest : rest \in SeqsUpTo(WalkSegments, MaxReqLen - 1) }
    \cup { <<GroupKey>> \o rest \o <<"">> : rest \in SeqsUpTo(WalkSegments, MaxReqLen - 2) }

InitWalk ==
    /\ phase = "listening"
    /\ api \in WalkTables
    /\ routes = RegisteredRoutes(api)
    /\ pc = "idle"
    /\ req = <<>>
    /\ alt = 0
    /\ arg_doc = <<>>
    /\ matching_route_count = 0
    /\ matching_route = NoRoute
    /\ bindings = NoBindings
    /\ result = NoResult
    /\ evaluated = <<>>
    /\ served = 0
    /\ memo = NoMemo
    /\ loaded = api
    /\ api2 = api
    /\ result2 = NoResult
    /\ tasks = NoTasks
    /\ wallet = NoHolder
    /\ walk = NoWalk
    /\ pat_index = 0

UnchangedButWalk ==
    UNCHANGED <<phase, api, routes, arg_doc, matching_route_count, matching_route,
                bindings, result, evaluated, served, memo, loaded, api2, result2,
                tasks, wallet>>

\* The pattern being walked.
WalkedPattern == SelectedGroup(api, req).PATH[alt].s

\* parse_route gets to an alternative of the request's group.
BeginWalk(r, k) ==
    /\ pc = "idle"
    /\ ReachesLoop(api, r)
    /\ k \in DOMAIN SelectedGroup(api, r).PATH
    /\ SelectedGroup(api, r).PATH[k].is_str
    /\ req' = r
    /\ alt' = k
    /\ walk' = NewWalk(SelectedGroup(api, r).PATH[k].s,
                       InitLocals(SelectedGroup(api, r)).arg_doc, NoBindings)
    /\ pat_index' = 1
    /\ pc' = "walk"
    /\ UnchangedButWalk

\* One iteration of for pat_segment in route_pattern.split('/').
WalkStep ==
    /\ pc = "walk"
    /\ pat_index <= Len(WalkedPattern)
    /\ walk.exit = "none"
    /\ walk' = WalkSegment(SelectedGroup(api, req), WalkedPattern, req,
                           WalkedPattern[pat_index], walk)
    /\ pat_index' = pat_index + 1
    /\ UNCHANGED <<pc, req, alt>>
    /\ UnchangedButWalk

\* The inner loop is left: at the pattern's end, by the ? or by a panic.
EndWalk ==
    /\ pc = "walk"
    /\ pat_index > Len(WalkedPattern) \/ walk.exit # "none"
    /\ pc' = "idle"
    /\ req' = <<>>
    /\ alt' = 0
    /\ walk' = NoWalk
    /\ pat_index' = 0
    /\ UnchangedButWalk

NextWalk ==
    \/ \E r \in WalkRequests, k \in 1..MaxAlts : BeginWalk(r, k)
    \/ WalkStep
    \/ EndWalk

SpecWalk == InitWalk /\ [][NextWalk]_vars

----------------------------------------------------------------------------
(* What the claims speak of *)

\* The kind of a failure, as its payload tells it: "Need documentation"
\* closes the payload when nothing matched, "Ambiguity in api.toml" when
\* several alternatives did.
FailureKind(res) ==
    IF res.tag # "Err" \/ res.payload = <<>> THEN "None"
    ELSE LET last == res.payload[Len(res.payload)].kind
         IN  CASE last = "NeedDocumentation" -> "NoMatchingPattern"
               [] last = "Ambiguity" -> "AmbiguousPattern"
               [] OTHER -> "Other"

\* The request segment at the k-th position, empty past the request's end.
SegmentAt(r, k) == IF k <= Len(r) THEN r[k] ELSE ""

\* The pattern is a full match of the request: position by position every
\* literal equals its request segment and every parameter parses, and the
\* request is no longer than the pattern.
FullMatch(group, pattern, r) ==
    /\ Len(r) <= Len(pattern)
    /\ \A k \in DOMAIN pattern :
          IF HasEntry(group, pattern[k])
          THEN /\ EntryIsStr(group, pattern[k])
               /\ UrlSegmentType_from_str(EntryStr(group, pattern[k])).ok
               /\ UrlSegmentValue_parse(
                      UrlSegmentType_from_str(EntryStr(group, pattern[k])).ptype,
                      SegmentAt(r, k)).some
          ELSE SegmentAt(r, k) = pattern[k]

\* The alternatives of the request's group that fully match it.
FullMatches(table, r) ==
    LET group == SelectedGroup(table, r)
    IN  { k \in DOMAIN group.PATH :
            group.PATH[k].is_str /\ FullMatch(group, group.PATH[k].s, r) }

\* A request the web server hands to parse_route has been answered.
Answered == pc = "done" /\ Routed(routes, req)

AnsweredInGroup == Answered /\ GroupExists(api, req)

\* Every placeholder of every group names a type UrlSegmentType declares.
TypesDeclared(table) ==
    \A k \in DOMAIN table.route :
        \A p \in DOMAIN table.route[k].params :
            table.route[k].params[p] \in SegmentTypes

----------------------------------------------------------------------------
(* C1 *)

\* C1: whenever two or more alternatives of the selected group fully match
\* the request, parse_route returns a failure of kind AmbiguousPattern, with
\* no pattern and no bindings.
C1_AmbiguityReported ==
    (AnsweredInGroup /\ Cardinality(FullMatches(api, req)) >= 2)
        => /\ result.tag = "Err"
           /\ FailureKind(result) = "AmbiguousPattern"
           /\ result.pattern = NoRoute
           /\ result.bindings = NoBindings

----------------------------------------------------------------------------
(* C2 *)

\* C2: when exactly one alternative of the selected group fully matches the
\* request, parse_route returns Ok with that alternative's pattern.
C2_UniqueMatchSucceeds ==
    (AnsweredInGroup /\ Cardinality(FullMatches(api, req)) = 1)
        => /\ result.tag = "Ok"
           /\ \E k \in FullMatches(api, req) :
                 result.pattern = SelectedGroup(api, req).PATH[k].s

----------------------------------------------------------------------------
(* C3 *)

\* C3: an alternative that parse_route walked is counted as a full match if
\* and only if no literal differed, no parameter failed to parse and the
\* request has no segment left after the pattern; a request longer than the
\* pattern is never counted for it.
C3_CountedIffFullMatch ==
    (pc \in {"loop", "done"} /\ GroupExists(api, req))
        => \A j \in DOMAIN evaluated :
              LET group == SelectedGroup(api, req)
                  element == group.PATH[evaluated[j].alt]
              IN  /\ evaluated[j].counted
                        <=> (element.is_str /\ FullMatch(group, element.s, req))
                  /\ (element.is_str /\ Len(req) > Len(element.s))
                        => ~evaluated[j].counted

\* Over the whole walk of a pattern nothing differs and nothing fails to
\* parse, yet the request goes on after the pattern's last segment.
OnlyLengthMismatch(group, pattern, r) ==
    /\ Len(r) > Len(pattern)
    /\ FullMatch(group, pattern, SubSeq(r, 1, Len(pattern)))

\* One alternative was counted and another, mismatched in length only, was not.
C3_Witness ==
    /\ pc = "done"
    /\ GroupExists(api, req)
    /\ \E i, j \in DOMAIN evaluated :
          LET group == SelectedGroup(api, req)
              element == group.PATH[evaluated[j].alt]
          IN  /\ evaluated[i].counted
              /\ ~evaluated[j].counted
              /\ element.is_str
              /\ OnlyLengthMismatch(group, element.s, req)

----------------------------------------------------------------------------
(* C4 *)

\* C4: when no alternative of the selected group fully matches the request,
\* parse_route returns, as a value, a failure of kind NoMatchingPattern that
\* carries the diagnostic trace, with no pattern and no bindings.
C4_NoMatchReported ==
    (AnsweredInGroup /\ FullMatches(api, req) = {})
        => /\ result.tag = "Err"
           /\ FailureKind(result) = "NoMatchingPattern"
           /\ Len(result.payload) > 2
           /\ result.payload[1].kind = "Doc"
           /\ result.pattern = NoRoute
           /\ result.bindings = NoBindings

----------------------------------------------------------------------------
(* C5 *)

\* C5: when parse_route has returned a result, every alternative of the
\* selected group has been evaluated, once each and in declaration order:
\* none was skipped because of what an earlier one came to.
C5_AllAlternativesEvaluated ==
    (AnsweredInGroup /\ result.tag \in {"Ok", "Err"})
        => /\ \A k \in DOMAIN SelectedGroup(api, req).PATH :
                 SelectedGroup(api, req).PATH[k].is_str
                     => \E j \in DOMAIN evaluated : evaluated[j].alt = k
           /\ \A i, j \in DOMAIN evaluated :
                 i < j => evaluated[i].alt < evaluated[j].alt

----------------------------------------------------------------------------
(* C6 *)

\* C6: the server listens only if every parameter of the route
\* specification names a declared type.
C6_UndeclaredTypeRejectedAtLoad ==
    phase = "listening" => TypesDeclared(api)

----------------------------------------------------------------------------
(* C7 *)

\* C7: a request whose first segment names no declared route group is
\* answered by parse_route with a failure value, of a kind that is neither
\* NoMatchingPattern nor AmbiguousPattern.
C7_UnknownGroupIsFailure ==
    (Answered /\ req # <<>> /\ ~GroupExists(api, req))
        => /\ result.tag = "Err"
           /\ FailureKind(result) = "Other"

----------------------------------------------------------------------------
(* C8 *)

\* C8: parse_route gives the same class of outcome, and on success the same
\* pattern and bindings, for a route table and for the same table with the
\* alternatives of the group declared in another order.
C8_OrderIndependent ==
    Answered
        => /\ result.tag = result2.tag
           /\ FailureKind(result) = FailureKind(result2)
           /\ result.pattern = result2.pattern
           /\ result.bindings = result2.bindings

----------------------------------------------------------------------------
(* C9 *)

\* C9: a request path answered before gets the answer it got the first
\* time, whatever was matched in between, and the route table stays as it
\* was loaded.
C9_SameRequestSameResult ==
    /\ api = loaded
    /\ (pc = "done" /\ memo.set /\ memo.req = req) => result = memo.result

\* The first request is answered again after another one was matched in
\* between, with success and bindings.
C9_Witness ==
    /\ pc = "done"
    /\ served = 2
    /\ memo.set
    /\ memo.req = req
    /\ result.tag = "Ok"
    /\ result.bindings # NoBindings

----------------------------------------------------------------------------
(* C10 *)

\* The pieces of a payload that are of one of the given kinds.
PiecesOf(payload, kinds) == SelectSeq(payload, LAMBDA piece : piece.kind \in kinds)

\* The payload has, for the k-th alternative, the piece of each parameter:
\* its name, its declared type and the raw segment, then how parsing went.
ArgumentsTraced(group, pattern, r, payload) ==
    \A k \in DOMAIN pattern :
        HasEntry(group, pattern[k])
            => \E j \in 1..Len(payload) - 1 :
                  /\ payload[j] = Piece("Argument", pattern, pattern[k],
                                        EntryStr(group, pattern[k]), SegmentAt(r, k))
                  /\ payload[j + 1].kind \in {"ParseSucceeded", "ParseFailed"}
                  /\ payload[j + 1].a = pattern[k]

\* C10: every failure returned for a request whose group exists carries a
\* payload that begins with the group's documentation and has, for each
\* alternative in declaration order, a section with the pattern, every
\* parameter's name, type, raw value and parse outcome, the outcome of the
\* literals and of the length, and the verdict.
C10_FailureCarriesTrace ==
    (AnsweredInGroup /\ result.tag = "Err")
        => LET group == SelectedGroup(api, req)
               payload == result.payload
               sections == PiecesOf(payload, {"Route"})
               verdicts == PiecesOf(payload, {"RouteMatches", "RouteDoesNotMatch"})
               parsing == PiecesOf(payload, {"ArgumentParsingFailed",
                                             "NoArgumentParsingErrors"})
           IN  /\ payload # <<>>
               /\ payload[1] = Piece("Doc", NoRoute, group.DOC, "", "")
               /\ Len(sections) = Len(group.PATH)
               /\ Len(verdicts) = Len(group.PATH)
               /\ Len(parsing) = Len(group.PATH)
               /\ \A k \in DOMAIN sections :
                     /\ group.PATH[k].is_str
                     /\ sections[k].route = group.PATH[k].s
                     /\ verdicts[k].route = group.PATH[k].s
                     /\ ArgumentsTraced(group, group.PATH[k].s, req, payload)

----------------------------------------------------------------------------
(* C11 *)

\* The handler of task t has answered a failure that parse_route returned.
FailureAnswered(t) == tasks[t].pc = "answered" /\ tasks[t].result.tag = "Err"

SuccessStatus(status) == status \in 200..299

BadRequestClass(status) == status \in 400..499

\* C11: a failure of parse_route is answered, by entry_page and by
\* handle_web_socket alike, with the trace as body and a status that is no
\* success: of the bad-request class for NoMatchingPattern, of another class
\* for AmbiguousPattern.
C11_FailureClassified ==
    \A t \in DOMAIN tasks :
        FailureAnswered(t)
            => /\ tasks[t].response.body = tasks[t].result.payload
               /\ ~SuccessStatus(tasks[t].response.status)
               /\ FailureKind(tasks[t].result) = "NoMatchingPattern"
                     => BadRequestClass(tasks[t].response.status)
               /\ FailureKind(tasks[t].result) = "AmbiguousPattern"
                     => ~BadRequestClass(tasks[t].response.status)

----------------------------------------------------------------------------
(* C12 *)

\* The operation handler each of the two handlers dispatches to.
DispatcherOf(handler) ==
    IF handler = "entry_page" THEN "dispatch_url" ELSE "dispatch_web_socket"

\* C12: the operation handler of a request is not invoked before parse_route
\* has returned; once the handler of the request has taken its arm it has
\* been invoked once if parse_route returned Ok, with the pattern and the
\* bindings of that result, and not at all otherwise.
C12_DispatchedOncePerSuccess ==
    \A t \in DOMAIN tasks :
        /\ tasks[t].pc \in {"idle", "matching", "matched", "unwound"}
              => tasks[t].invoked = 0
        /\ tasks[t].pc \in {"handler", "locked", "answered"}
              => tasks[t].invoked = IF tasks[t].result.tag = "Ok" THEN 1 ELSE 0
        /\ tasks[t].invoked > 0
              => /\ tasks[t].result.tag = "Ok"
                 /\ tasks[t].call = [handler |-> DispatcherOf(tasks[t].handler),
                                     pattern |-> tasks[t].result.pattern,
                                     bindings |-> tasks[t].result.bindings]

\* One request was dispatched with bindings while another was answered
\* with a failure.
C12_Witness ==
    \E t, u \in DOMAIN tasks :
        /\ tasks[t].pc = "answered"
        /\ tasks[t].invoked = 1
        /\ tasks[t].call.bindings # NoBindings
        /\ FailureAnswered(u)
        /\ tasks[u].invoked = 0

----------------------------------------------------------------------------
(* C13 *)

\* The declared type of the parameter takes the empty segment.
AcceptsEmpty(group, pat_segment) ==
    /\ EntryIsStr(group, pat_segment)
    /\ UrlSegmentType_from_str(EntryStr(group, pat_segment)).ok
    /\ UrlSegmentValue_parse(
           UrlSegmentType_from_str(EntryStr(group, pat_segment)).ptype, "").some

\* The positions of the pattern where a parameter whose type does not take
\* the empty segment meets a request segment that is missing or empty.
OmittedParameters(group, pattern, r) ==
    { k \in DOMAIN pattern :
        /\ HasEntry(group, pattern[k])
        /\ SegmentAt(r, k) = ""
        /\ ~AcceptsEmpty(group, pattern[k]) }

\* The patterns of a group: the strings of its PATH.
Alternatives(group) == { e.s : e \in { x \in Range(group.PATH) : x.is_str } }

\* The request leaves out a parameter of every alternative of its group.
OmitsOfEveryAlternative(table, r) ==
    /\ GroupExists(table, r)
    /\ Alternatives(SelectedGroup(table, r)) # {}
    /\ \A pattern \in Alternatives(SelectedGroup(table, r)) :
          OmittedParameters(SelectedGroup(table, r), pattern, r) # {}

\* The payload shows the parameter at position k of the pattern with an
\* empty value, and that parsing it failed.
EmptyValueTraced(group, pattern, k, payload) ==
    \E j \in 1..Len(payload) - 1 :
        /\ payload[j] = Piece("Argument", pattern, pattern[k],
                              EntryStr(group, pattern[k]), "")
        /\ payload[j + 1] = Piece("ParseFailed", pattern, pattern[k], "", "")

\* C13: for a request that leaves out a parameter of every alternative of
\* its group, parse_route returns a failure whose trace shows each such
\* parameter with an empty value and a failed parse, and no operation
\* handler is invoked.
C13_OmittedParameterFails ==
    \A t \in DOMAIN tasks :
        (/\ tasks[t].pc \notin {"idle", "matching"}
         /\ OmitsOfEveryAlternative(api, tasks[t].req))
            => /\ tasks[t].result.tag = "Err"
               /\ tasks[t].invoked = 0
               /\ \A pattern \in Alternatives(SelectedGroup(api, tasks[t].req)) :
                     \A k \in OmittedParameters(SelectedGroup(api, tasks[t].req),
                                                pattern, tasks[t].req) :
                         EmptyValueTraced(SelectedGroup(api, tasks[t].req), pattern,
                                          k, tasks[t].result.payload)

----------------------------------------------------------------------------
(* C14 *)

\* The positions of the pattern that hold a parameter.
ParameterPositions(group, pattern) ==
    { k \in DOMAIN pattern : HasEntry(group, pattern[k]) }

\* The binding of the parameter at position k of the pattern: its name, its
\* declared type and the value parsed from the request segment at k.
BindingAt(group, pattern, r, k) ==
    LET ptype == UrlSegmentType_from_str(EntryStr(group, pattern[k])).ptype
    IN  [parameter |-> pattern[k], ptype |-> ptype,
         value |-> UrlSegmentValue_parse(ptype, SegmentAt(r, k)).value]

----------------------------------------------------------------------------
(* C15 *)

\* A walk is going on for a request the web server hands to parse_route.
Walking == pc = "walk" /\ Routed(routes, req)

\* Among the first n segments of the pattern a literal differs from the
\* request segment at its position (the strings are compared as they are).
LiteralDiffers(group, pattern, r, n) ==
    \E k \in 1..n : ~HasEntry(group, pattern[k]) /\ SegmentAt(r, k) # pattern[k]

\* Among the first n segments of the pattern a parameter does not parse
\* from the request segment at its position.
ParameterFails(group, pattern, r, n) ==
    \E k \in 1..n :
        /\ HasEntry(group, pattern[k])
        /\ EntryIsStr(group, pattern[k])
        /\ UrlSegmentType_from_str(EntryStr(group, pattern[k])).ok
        /\ ~UrlSegmentValue_parse(
                UrlSegmentType_from_str(EntryStr(group, pattern[k])).ptype,
                SegmentAt(r, k)).some

\* C15: while an alternative is walked, every pattern segment handled so far
\* has taken one request position, so that the segment at position k was
\* set against the request segment at position k: the mismatch flag is up
\* exactly if one of these literals differs, the parse flag exactly if one
\* of these parameters fails to parse; and the walk is left only when every
\* segment of the pattern has been handled.
C15_LockstepToTheEnd ==
    Walking
        => LET group == SelectedGroup(api, req)
               handled == pat_index - 1
           IN  /\ walk.pos = IF pat_index <= Len(req) THEN pat_index ELSE Len(req) + 1
               /\ walk.found_literal_mismatch
                     <=> LiteralDiffers(group, WalkedPattern, req, handled)
               /\ walk.argument_parse_failed
                     <=> ParameterFails(group, WalkedPattern, req, handled)
               /\ walk.exit # "none" => pat_index > Len(WalkedPattern)

----------------------------------------------------------------------------
(* C16 *)

\* C16: a task that is about to call parse_route, or for which it has just
\* returned, does not hold the wallet's lock; the lock is held only by a
\* task whose parse_route returned Ok and whose operation handler has been
\* invoked.
C16_MatchingWithoutWalletLock ==
    /\ \A t \in DOMAIN tasks :
          tasks[t].pc \in {"matching", "matched", "unwound"} => wallet # t
    /\ wallet # NoHolder
          => /\ tasks[wallet].pc = "locked"
             /\ tasks[wallet].result.tag = "Ok"
             /\ tasks[wallet].invoked = 1

\* parse_route has returned for one request while the operation handler of
\* another held the wallet's lock, and holds it still.
C16_Witness ==
    \E t, u \in DOMAIN tasks :
        /\ t # u
        /\ wallet = t
        /\ tasks[u].pc = "matched"
        /\ tasks[u].matched_while_locked

----------------------------------------------------------------------------
(* C17 *)

\* The request of task t goes to a path that init_server registered from
\* the PATH of the request's own group.
ToPathOfItsGroup(t) ==
    /\ GroupExists(api, tasks[t].req)
    /\ Routed(Alternatives(SelectedGroup(api, tasks[t].req)), tasks[t].req)

\* C17: for a request to a path registered from a route group, whether the
\* group's PATH is a single string or an array, parse_route returns Ok or
\* Err; it does not panic.
C17_RegisteredGroupsAreMatched ==
    \A t \in DOMAIN tasks :
        (tasks[t].pc \notin {"idle", "matching"} /\ ToPathOfItsGroup(t))
            => tasks[t].result.tag \in {"Ok", "Err"}

----------------------------------------------------------------------------
(* C18 *)

\* The walk has handled the pattern segment as a parameter: arg_doc shows
\* it as an argument of the pattern.
TreatedAsParameter(pattern, pat_segment) ==
    \E j \in DOMAIN walk.arg_doc :
        /\ walk.arg_doc[j].kind = "Argument"
        /\ walk.arg_doc[j].route = pattern
        /\ walk.arg_doc[j].a = pat_segment

\* The bindings recorded for the pattern so far.
RecordedBindings(pattern) ==
    IF pattern \in DOMAIN walk.bindings THEN walk.bindings[pattern] ELSE NoBindings

\* C18: a pattern segment the walk has handled was treated as a parameter
\* exactly if the group's table has an entry under its text, and as a
\* literal otherwise; only segments written as ":name" are treated as
\* parameters and get a binding, and a ":name" without entry is compared as
\* a literal and gets none.
C18_ParameterIffTypeEntry ==
    Walking
        => LET group == SelectedGroup(api, req)
           IN  \A k \in 1..pat_index - 1 :
                  /\ TreatedAsParameter(WalkedPattern, WalkedPattern[k])
                        <=> HasEntry(group, WalkedPattern[k])
                  /\ TreatedAsParameter(WalkedPattern, WalkedPattern[k])
                        => IsPlaceholderText(WalkedPattern[k])
                  /\ WalkedPattern[k] \in DOMAIN RecordedBindings(WalkedPattern)
                        => IsPlaceholderText(WalkedPattern[k])
                  /\ ~HasEntry(group, WalkedPattern[k])
                        => /\ WalkedPattern[k] \notin DOMAIN RecordedBindings(WalkedPattern)
                           /\ SegmentAt(req, k) # WalkedPattern[k]
                                 => walk.found_literal_mismatch

\* The same, but for the literals that read as a key of the group's table.
ParameterIffTypeEntryButKeys ==
    (Walking /\ \A k \in DOMAIN WalkedPattern : WalkedPattern[k] # "DOC")
        => C18_ParameterIffTypeEntry

----------------------------------------------------------------------------
(* The route specifications without the defects that parse_route meets
   only while matching: a parameter of an undeclared type, a PATH that is
   no array, and a PATH element that is not a string.  On these the
   statements of C1, C2, C4, C5, C8, C10 and C13 hold. *)

WellFormed(table) ==
    /\ TypesDeclared(table)
    /\ \A k \in DOMAIN table.route :
          /\ table.route[k].PATH_is_array
          /\ \A j \in DOMAIN table.route[k].PATH : table.route[k].PATH[j].is_str

OnWellFormedTables ==
    WellFormed(api)
        => /\ C1_AmbiguityReported
           /\ C2_UniqueMatchSucceeds
           /\ C4_NoMatchReported
           /\ C5_AllAlternativesEvaluated
           /\ C10_FailureCarriesTrace

OrderIndependentOnWellFormedTables == WellFormed(api) => C8_OrderIndependent

OmittedParameterFailsOnWellFormedTables == WellFormed(api) => C13_OmittedParameterFails

LockstepToTheEndOnWellFormedTables == WellFormed(api) => C15_LockstepToTheEnd

====
